---- MODULE Spec2Model ----
(***************************************************************************)
(* generate_icons.py: open one source image, resize it to each entry of a  *)
(* fixed table, save every result as Icon-<label>.png, print a line per    *)
(* file, and turn any Exception into one "Error:" line.                    *)
(*                                                                         *)
(* The script is modelled statement by statement (pc names the statement   *)
(* about to run).  The image library is modelled by what the script relies *)
(* on: open reads the header and keeps the file handle, the first resize   *)
(* decodes the pixels, resize returns a new image, save opens the target   *)
(* for writing (truncating it) and then encodes into it.  The environment  *)
(* may make a resize or a save fail, and may interrupt the process.        *)
(***************************************************************************)
EXTENDS Integers, Sequences, FiniteSets

VARIABLES
    run,        \* ordinal of the current invocation of the script
    source,     \* the file Icon-iOS-Marketing.png as found on disk
    pc,         \* statement about to execute
    i,          \* position of the for loop in sizes
    img,        \* the image bound by the with statement
    resized,    \* the image bound by "resized"
    fs,         \* output files on disk, by file name
    out,        \* lines printed by this invocation
    exc,        \* exception in flight, or the one that ended the run
    status,     \* exit status of the process once pc = "exited"
    log,        \* history: resize/save calls made by this invocation
    failed,     \* history: the call that raised, if any
    written,    \* history: times each file was opened for writing
    deleted,    \* history: times each file was removed
    fs0,        \* history: the output files as this invocation found them
    prevClean   \* history: the previous invocation ended without any error

vars == <<run, source, pc, i, img, resized, fs, out, exc, status, log,
          failed, written, deleted, fs0, prevClean>>

-----------------------------------------------------------------------------
(* Program constants                                                       *)

source_image == "Icon-iOS-Marketing.png"

sizes ==
    << <<"iPhone-20@2x", 40>>,
       <<"iPhone-20@3x", 60>>,
       <<"iPhone-29@2x", 58>>,
       <<"iPhone-29@3x", 87>>,
       <<"iPhone-40@2x", 80>>,
       <<"iPhone-40@3x", 120>>,
       <<"iPhone-60@2x", 120>>,
       <<"iPhone-60@3x", 180>>,
       <<"iPad-20@1x", 20>>,
       <<"iPad-20@2x", 40>>,
       <<"iPad-29@1x", 29>>,
       <<"iPad-29@2x", 58>>,
       <<"iPad-40@1x", 40>>,
       <<"iPad-40@2x", 80>>,
       <<"iPad-76@1x", 76>>,
       <<"iPad-76@2x", 152>>,
       <<"iPad-83.5@2x", 167>> >>

NumSizes == Len(sizes)

NameOf(k) == sizes[k][1]

SizeOf(k) == sizes[k][2]

(* output_file = f"Icon-{name}.png"                                        *)
OutputFileNoBraces(name) == "Icon-name.png"

OutputFile(name) == "Icon-" \o name \o ".png"

OutputFiles == { OutputFile(NameOf(k)) : k \in 1..NumSizes }

-----------------------------------------------------------------------------
(* Bounds and inputs                                                       *)

MaxRuns == 2

SourceDims == { <<1024, 1024>>, <<1024, 512>> }

NoDims == <<0, 0>>

(* What may be found at source_image: nothing, a file that is no image,    *)
(* an image whose header parses but whose data is cut short, or an image.  *)
Sources ==
    { [kind |-> k, dims |-> NoDims] : k \in {"missing", "unidentified"} }
    \cup
    { [kind |-> k, dims |-> d] : k \in {"truncated", "valid"}, d \in SourceDims }

-----------------------------------------------------------------------------
(* Images and files                                                        *)

NoPixels == [w |-> 0, h |-> 0, gen |-> 0, base |-> NoDims]

(* Pixel data decoded from the source: gen counts the resamplings applied  *)
(* to obtain the data, base is the size of the data it was resampled from. *)
SourcePixels(src) ==
    [w |-> src.dims[1], h |-> src.dims[2], gen |-> 0, base |-> src.dims]

NoImage == [handle |-> "none", loaded |-> FALSE, px |-> NoPixels]

(* Image.open: header read, handle kept, pixels not decoded yet.           *)
OpenedImage(src) ==
    [handle |-> "open", loaded |-> FALSE, px |-> SourcePixels(src)]

OpenFails(src) == src.kind \in {"missing", "unidentified"}

OpenError(src) ==
    IF src.kind = "missing" THEN "FileNotFoundError" ELSE "UnidentifiedImageError"

(* The first resize decodes the pixel data; a truncated file fails there.  *)
LoadFails(image, src) == ~image.loaded /\ src.kind = "truncated"

(* img.resize((size, size), LANCZOS): a new image of exactly size x size.  *)
ResizeKeepAspect(px, size) ==
    [w |-> size, h |-> (px.h * size) \div px.w, gen |-> px.gen + 1,
     base |-> <<px.w, px.h>>]

ResizeImage(px, size) ==
    [w |-> size, h |-> size, gen |-> px.gen + 1, base |-> <<px.w, px.h>>]

(* The image bound to img after img.resize(...) returned result.           *)
ImgResizedInPlace(image, result) ==
    [image EXCEPT !.loaded = TRUE, !.px = result]

ImgAfterResize(image, result) == [image EXCEPT !.loaded = TRUE]

Absent == [state |-> "absent", imgs |-> <<>>]

(* save opens the target with "w+b": created or truncated.                 *)
OpenForAppend(old) ==
    IF old.state = "absent" THEN [state |-> "partial", imgs |-> <<>>]
    ELSE [old EXCEPT !.state = "partial"]

OpenForWrite(old) == [state |-> "partial", imgs |-> <<>>]

(* the encoder has written the whole image and the file is closed          *)
FileAfterSave(opened, image) ==
    [state |-> "complete", imgs |-> Append(opened.imgs, image)]

(* A save that fails while encoding leaves the truncated target behind;    *)
(* the library may remove a target that did not exist before the save.     *)
(* No other file is touched.                                               *)
RollbackAll(files, f, created) == { [g \in DOMAIN files |-> Absent] }

FailedSaveOutcomes(files, f, created) ==
    IF created THEN { files, [files EXCEPT ![f] = Absent] } ELSE { files }

-----------------------------------------------------------------------------
(* Exceptions                                                              *)

ExceptionKinds ==
    {"FileNotFoundError", "UnidentifiedImageError", "OSError",
     "PermissionError", "MemoryError"}

(* except Exception as e                                                   *)
CatchesOSErrorOnly(e) ==
    e \in {"FileNotFoundError", "UnidentifiedImageError", "OSError",
           "PermissionError"}

Catches(e) == e \in ExceptionKinds

(* leaving the with block, normally or by an exception: img.__exit__       *)
ExitHandleOnSuccessOnly(handle, e) == IF e = "none" THEN "closed" ELSE handle

ExitHandle(handle, e) == "closed"

(* print(f"Generated: {output_file}")                                      *)
GeneratedLineName(name) == << [tag |-> "Generated", arg |-> name] >>

GeneratedLine(name) == << [tag |-> "Generated", arg |-> OutputFile(name)] >>

(* print(f"Error: {e}")                                                    *)
NoErrorLine(e) == << >>

ErrorLine(e) == << [tag |-> "Error", arg |-> e] >>

(* where control goes once the except clause has run: the script ends      *)
ExceptContinuesLoop(k) ==
    IF k >= 1 /\ k < NumSizes THEN [pc |-> "resize", i |-> k + 1]
    ELSE [pc |-> "exited", i |-> k]

ExceptNext(k) == [pc |-> "exited", i |-> k]

-----------------------------------------------------------------------------
NoFailure == [op |-> "none", k |-> 0, injected |-> FALSE]

NoWrites == [f \in OutputFiles |-> 0]

Init ==
    /\ run = 1
    /\ source \in Sources
    /\ pc = "open"
    /\ i = 0
    /\ img = NoImage
    /\ resized = NoPixels
    /\ fs = [f \in OutputFiles |-> Absent]
    /\ out = << >>
    /\ exc = "none"
    /\ status = 0
    /\ log = << >>
    /\ failed = NoFailure
    /\ written = NoWrites
    /\ deleted = NoWrites
    /\ fs0 = [f \in OutputFiles |-> Absent]
    /\ prevClean = FALSE

(* An exception e raised by call op of iteration k inside the with block.  *)
RaiseInWith(e, op, k, inj) ==
    /\ exc' = e
    /\ failed' = [op |-> op, k |-> k, injected |-> inj]
    /\ pc' = "with_exit"

(* with Image.open(source_image) as img:                                   *)
Open ==
    /\ pc = "open"
    /\ IF OpenFails(source)
       THEN /\ exc' = OpenError(source)
            /\ failed' = [op |-> "open", k |-> 0, injected |-> FALSE]
            /\ pc' = IF Catches(OpenError(source)) THEN "except" ELSE "exited"
            /\ status' = IF Catches(OpenError(source)) THEN status ELSE 1
            /\ UNCHANGED <<img, i>>
       ELSE /\ img' = OpenedImage(source)
            /\ i' = 1
            /\ pc' = "resize"
            /\ UNCHANGED <<exc, failed, status>>
    /\ UNCHANGED <<run, source, resized, fs, out, log, written, deleted, fs0,
                   prevClean>>

(* resized = img.resize((size, size), Image.Resampling.LANCZOS)            *)
Resize ==
    /\ pc = "resize"
    /\ log' = Append(log, <<"resize", i>>)
    /\ IF LoadFails(img, source)
       THEN /\ RaiseInWith("OSError", "resize", i, FALSE)
            /\ UNCHANGED <<img, resized>>
       ELSE \/ /\ resized' = ResizeImage(img.px, SizeOf(i))
               /\ img' = ImgAfterResize(img, ResizeImage(img.px, SizeOf(i)))
               /\ pc' = "save"
               /\ UNCHANGED <<exc, failed>>
            \/ /\ RaiseInWith("MemoryError", "resize", i, TRUE)
               /\ img' = [img EXCEPT !.loaded = TRUE]
               /\ UNCHANGED resized
    /\ UNCHANGED <<run, source, i, fs, out, status, written, deleted, fs0,
                   prevClean>>

(* resized.save(output_file, "PNG"), first half: the target is opened      *)
SaveOpen ==
    /\ pc = "save"
    /\ log' = Append(log, <<"save", i>>)
    /\ LET f == OutputFile(NameOf(i)) IN
       \/ /\ fs' = [fs EXCEPT ![f] = OpenForWrite(fs[f])]
          /\ written' = [written EXCEPT ![f] = @ + 1]
          /\ pc' = "saving"
          /\ UNCHANGED <<exc, failed>>
       \/ /\ RaiseInWith("PermissionError", "save", i, TRUE)
          /\ UNCHANGED <<fs, written>>
    /\ UNCHANGED <<run, source, i, img, resized, out, status, deleted, fs0,
                   prevClean>>

(* resized.save(output_file, "PNG"), second half: the image is encoded     *)
SaveWrite ==
    /\ pc = "saving"
    /\ LET f == OutputFile(NameOf(i)) IN
       \/ /\ fs' = [fs EXCEPT ![f] = FileAfterSave(fs[f], resized)]
          /\ pc' = "print"
          /\ UNCHANGED <<exc, failed, deleted>>
       \/ /\ RaiseInWith("OSError", "save", i, TRUE)
          /\ fs' \in FailedSaveOutcomes(fs, f, fs0[f].state = "absent")
          /\ deleted' = [g \in OutputFiles |->
                           IF fs'[g].state = "absent" /\ fs[g].state # "absent"
                           THEN deleted[g] + 1 ELSE deleted[g]]
    /\ UNCHANGED <<run, source, i, img, resized, out, status, log, written,
                   fs0, prevClean>>

(* print(f"Generated: {output_file}"), then the for loop advances          *)
PrintGenerated ==
    /\ pc = "print"
    /\ out' = out \o GeneratedLine(NameOf(i))
    /\ i' = i + 1
    /\ pc' = IF i + 1 > NumSizes THEN "with_exit" ELSE "resize"
    /\ UNCHANGED <<run, source, img, resized, fs, exc, status, log, failed,
                   written, deleted, fs0, prevClean>>

(* the with block is left: the handle is released, then the exception, if  *)
(* any, reaches the except clause or leaves the script                     *)
WithExit ==
    /\ pc = "with_exit"
    /\ img' = [img EXCEPT !.handle = ExitHandle(img.handle, exc)]
    /\ pc' = IF exc # "none" /\ Catches(exc) THEN "except" ELSE "exited"
    /\ status' = IF exc # "none" /\ ~Catches(exc) THEN 1 ELSE status
    /\ UNCHANGED <<run, source, i, resized, fs, out, exc, log, failed,
                   written, deleted, fs0, prevClean>>

(* except Exception as e: print(f"Error: {e}")                             *)
Except ==
    /\ pc = "except"
    /\ out' = out \o ErrorLine(exc)
    /\ pc' = ExceptNext(failed.k).pc
    /\ i' = ExceptNext(failed.k).i
    /\ UNCHANGED <<run, source, img, resized, fs, exc, status, log, failed,
                   written, deleted, fs0, prevClean>>

(* The process is interrupted: KeyboardInterrupt is no Exception, so the   *)
(* with block is unwound and the except clause is passed by.               *)
Interrupt ==
    /\ pc # "exited"
    /\ exc' = "KeyboardInterrupt"
    /\ IF img.handle = "open"
       THEN pc' = "with_exit" /\ UNCHANGED status
       ELSE pc' = "exited" /\ status' = 1
    /\ UNCHANGED <<run, source, i, img, resized, fs, out, log, failed,
                   written, deleted, fs0, prevClean>>

(* The script is invoked again in the same directory, same source.         *)
Restart ==
    /\ pc = "exited"
    /\ run < MaxRuns
    /\ run' = run + 1
    /\ pc' = "open"
    /\ i' = 0
    /\ img' = NoImage
    /\ resized' = NoPixels
    /\ out' = << >>
    /\ exc' = "none"
    /\ status' = 0
    /\ log' = << >>
    /\ failed' = NoFailure
    /\ written' = NoWrites
    /\ deleted' = NoWrites
    /\ fs0' = fs
    /\ prevClean' = (exc = "none" /\ failed = NoFailure)
    /\ UNCHANGED <<source, fs>>

Step == Open \/ Resize \/ SaveOpen \/ SaveWrite \/ PrintGenerated \/ WithExit \/ Except

Next ==
    \/ Open
    \/ Resize
    \/ SaveOpen
    \/ SaveWrite
    \/ PrintGenerated
    \/ WithExit
    \/ Except
    \/ Interrupt
    \/ Restart

Spec == Init /\ [][Next]_vars

(* The interpreter keeps executing statements until the script ends.       *)
LiveSpec == Spec /\ WF_vars(Step)

-----------------------------------------------------------------------------
(* Vocabulary of the properties                                            *)

(* The output table as the interface description lists it.                 *)
DeclaredLabels ==
    << "iPhone-20@2x", "iPhone-20@3x", "iPhone-29@2x", "iPhone-29@3x",
       "iPhone-40@2x", "iPhone-40@3x", "iPhone-60@2x", "iPhone-60@3x",
       "iPad-20@1x", "iPad-20@2x", "iPad-29@1x", "iPad-29@2x",
       "iPad-40@1x", "iPad-40@2x", "iPad-76@1x", "iPad-76@2x",
       "iPad-83.5@2x" >>

DeclaredPixels ==
    << 40, 60, 58, 87, 80, 120, 120, 180, 20, 40, 29, 58, 40, 80, 76, 152, 167 >>

DeclaredFile(k) == "Icon-" \o DeclaredLabels[k] \o ".png"

FileOf(k) == OutputFile(NameOf(k))

Interrupted == exc = "KeyboardInterrupt"

CleanEnd == pc = "exited" /\ exc = "none" /\ failed = NoFailure

(* file f holds exactly one complete n x n image                           *)
CompleteAt(f, n) ==
    /\ fs[f].state = "complete"
    /\ Len(fs[f].imgs) = 1
    /\ fs[f].imgs[1].w = n
    /\ fs[f].imgs[1].h = n

WrittenFiles == { f \in OutputFiles : written[f] > 0 }

GeneratedCount == Cardinality({ n \in 1..Len(out) : out[n].tag = "Generated" })

ErrorCount == Cardinality({ n \in 1..Len(out) : out[n].tag = "Error" })

(* saves of this run that returned                                         *)
SavesCompleted ==
    Cardinality({ k \in 1..NumSizes :
                    written[FileOf(k)] > 0 /\ fs[FileOf(k)].state = "complete" })

(* every Generated line is the line of the table entry at its position     *)
GeneratedInTableOrder ==
    \A n \in 1..Len(out) :
        out[n].tag = "Generated" =>
            /\ n <= NumSizes
            /\ out[n].arg = "Icon-" \o NameOf(n) \o ".png"
            /\ \A m \in 1..n : out[m].tag = "Generated"

-----------------------------------------------------------------------------
(* C1: a run on a decodable source (square or not) in which no resize or   *)
(* save fails ends with exactly 17 output files, Icon-<label>.png for each *)
(* label of the table, each of the width and height declared for it.       *)
C1_AllSizesGenerated ==
    (pc = "exited" /\ source.kind = "valid" /\ exc = "none"
        /\ failed = NoFailure) =>
        /\ Cardinality(WrittenFiles) = 17
        /\ WrittenFiles = { DeclaredFile(k) : k \in 1..17 }
        /\ DOMAIN fs = WrittenFiles
        /\ \A k \in 1..17 : CompleteAt(DeclaredFile(k), DeclaredPixels[k])

C1_Witness ==
    /\ CleanEnd
    /\ source.dims = <<1024, 512>>
    /\ CompleteAt("Icon-iPad-83.5@2x.png", 167)

(* C2: with a missing or corrupt source (failing at open or at the first   *)
(* decode) no save is performed, no file is written, no Generated line is  *)
(* printed, and the run ends with a failure message.                       *)
C2_NoOutputOnBadSource ==
    source.kind \in {"missing", "unidentified", "truncated"} =>
        /\ \A f \in OutputFiles : written[f] = 0 /\ fs[f] = fs0[f]
        /\ \A n \in 1..Len(log) : log[n][1] # "save"
        /\ GeneratedCount = 0
        /\ (pc = "exited" /\ ~Interrupted) => ErrorCount >= 1

C2_Witness ==
    /\ source.kind = "truncated"
    /\ pc = "exited"
    /\ failed = [op |-> "resize", k |-> 1, injected |-> FALSE]
    /\ ErrorCount = 1

(* C3: once the run has ended the source handle is not open: it is closed  *)
(* whenever it was acquired, and none is held when open itself failed.     *)
C3_HandleReleased ==
    /\ pc = "exited" => img.handle \in {"closed", "none"}
    /\ (pc = "exited" /\ i >= 1) => img.handle = "closed"
    /\ failed.op = "open" => img.handle = "none"

C3_Witness ==
    /\ pc = "exited"
    /\ failed.op = "save"
    /\ failed.k = 5
    /\ ~Interrupted
    /\ img.handle = "closed"

(* C4: after the open, or the resize or save of entry k, has failed: the   *)
(* failed call is the last call made, it was made once, nothing was tried  *)
(* for a later entry, exactly one Error line ends the output, and the      *)
(* files of the entries before k stay written once, complete, undeleted.   *)
C4_AbortOnFailure ==
    (failed # NoFailure /\ ~Interrupted) =>
        /\ failed.op = "open" => log = << >>
        /\ failed.op # "open" =>
            /\ Len(log) > 0
            /\ log[Len(log)] = <<failed.op, failed.k>>
            /\ \A n \in 1..(Len(log) - 1) : log[n] # <<failed.op, failed.k>>
        /\ \A n \in 1..Len(log) : log[n][2] <= failed.k
        /\ ErrorCount <= 1
        /\ pc = "exited" =>
            /\ ErrorCount = 1
            /\ out[Len(out)].tag = "Error"
        /\ \A j \in 1..NumSizes : j < failed.k =>
            /\ written[FileOf(j)] = 1
            /\ deleted[FileOf(j)] = 0
            /\ CompleteAt(FileOf(j), SizeOf(j))

C4_Witness ==
    /\ pc = "exited"
    /\ ~Interrupted
    /\ failed.op = "save"
    /\ failed.k = 3
    /\ Len(out) = 3
    /\ CompleteAt(FileOf(2), 60)

(* C5 as stated: the Generated lines follow the table order, a clean run   *)
(* prints 17 of them and no Error line, and at every point their number    *)
(* equals the number of completed saves.                                   *)
C5_CountEqualsSavesAlways ==
    /\ GeneratedInTableOrder
    /\ CleanEnd => (GeneratedCount = 17 /\ ErrorCount = 0)
    /\ GeneratedCount = SavesCompleted

(* C5: the Generated lines follow the table order and a clean run prints   *)
(* 17 of them and no Error line; their number equals the number of         *)
(* completed saves whenever a resize or a save is about to run or running, *)
(* and is one less exactly between a save's return and its print (or when  *)
(* the run was interrupted there).                                         *)
C5_GeneratedFollowsSaves ==
    /\ GeneratedInTableOrder
    /\ CleanEnd => (GeneratedCount = 17 /\ ErrorCount = 0)
    /\ pc \in {"resize", "save", "saving"} =>
        (GeneratedCount = i - 1 /\ SavesCompleted = i - 1)
    /\ pc = "print" => (SavesCompleted = i /\ GeneratedCount = i - 1)
    /\ GeneratedCount <= SavesCompleted
    /\ SavesCompleted <= GeneratedCount + 1
    /\ SavesCompleted = GeneratedCount + 1 => (pc = "print" \/ Interrupted)
    /\ ~Interrupted /\ pc = "exited" => GeneratedCount = SavesCompleted

C5_Witness ==
    /\ pc = "print"
    /\ i = 17
    /\ GeneratedCount = 16
    /\ SavesCompleted = 17

(* C6: the loaded source is never changed: img always holds the pixel data *)
(* decoded from the source, and every resize result, and every image       *)
(* saved, is one resampling away from that data.                           *)
C6_SourceUnchanged ==
    /\ img.handle # "none" => img.px = SourcePixels(source)
    /\ resized # NoPixels => (resized.gen = 1 /\ resized.base = source.dims)
    /\ \A f \in WrittenFiles : \A n \in 1..Len(fs[f].imgs) :
          fs[f].state = "complete" =>
              (fs[f].imgs[n].gen = 1 /\ fs[f].imgs[n].base = source.dims)

C6_Witness ==
    /\ pc = "save"
    /\ i = 17
    /\ img.loaded
    /\ resized = [w |-> 167, h |-> 167, gen |-> 1, base |-> <<1024, 512>>]

(* C7: a second run on the same source, started with the files of a clean  *)
(* first run in place and itself not hit by an environment failure or an   *)
(* interruption, ends without error, has written every file once, and      *)
(* leaves every file as the first run left it.                             *)
C7_Idempotent ==
    (run >= 2 /\ prevClean /\ pc = "exited" /\ ~Interrupted
        /\ ~failed.injected) =>
        /\ failed = NoFailure
        /\ ErrorCount = 0
        /\ GeneratedCount = NumSizes
        /\ \A f \in OutputFiles : written[f] = 1 /\ deleted[f] = 0
        /\ fs = fs0
        /\ \A k \in 1..NumSizes : CompleteAt(FileOf(k), SizeOf(k))

C7_Witness ==
    /\ run = 2
    /\ prevClean
    /\ CleanEnd
    /\ \A f \in OutputFiles : written[f] = 1
    /\ fs = fs0

(* labels and derived file names of different table entries differ         *)
NamesPairwiseDistinct ==
    \A j, k \in 1..NumSizes : j # k =>
        (NameOf(j) # NameOf(k) /\ FileOf(j) # FileOf(k))

(* C8: the labels, hence the file names, are pairwise distinct although    *)
(* sizes repeat, and no file is opened for writing twice in one run.       *)
C8_DistinctNames ==
    /\ NamesPairwiseDistinct
    /\ Cardinality(OutputFiles) = NumSizes
    /\ \A f \in OutputFiles : written[f] <= 1
    /\ pc = "save" => written[FileOf(i)] = 0

C8_Witness ==
    /\ pc = "saving"
    /\ i = 7
    /\ SizeOf(6) = SizeOf(7)
    /\ written[FileOf(6)] = 1
    /\ written[FileOf(7)] = 1
    /\ fs[FileOf(6)].state = "complete"

(* C9: every exception raised by open, resize or save is caught: the run   *)
(* always comes to its end, and unless interrupted it ends with exit       *)
(* status 0 whether it failed or not.                                      *)
C9_CaughtAndTerminates ==
    /\ []((pc = "exited" /\ ~Interrupted) => status = 0)
    /\ []((failed # NoFailure /\ ~Interrupted) => pc \in {"with_exit", "except", "exited"})
    /\ (pc # "exited") ~> (pc = "exited")

C9_Witness ==
    /\ pc = "exited"
    /\ failed.op = "resize"
    /\ exc = "MemoryError"
    /\ status = 0
    /\ ErrorCount = 1

(* C10: at every point of a run the files it has touched are those of a    *)
(* prefix of the table, reaching the current entry or the one before it;   *)
(* the files of the entries before the current one are complete with their *)
(* declared size and were never removed, only the current entry's file may *)
(* be incomplete, and the files of later entries are as the run found them.*)
C10_PrefixProgress ==
    LET Touched == { f \in OutputFiles :
                       written[f] > 0 \/ deleted[f] > 0 \/ fs[f] # fs0[f] }
        m == Cardinality(Touched)
    IN  /\ Touched = { FileOf(k) : k \in 1..m }
        /\ i = 0 => m = 0
        /\ i >= 1 => (m = i - 1 \/ (m = i /\ i <= NumSizes))
        /\ \A k \in 1..NumSizes : k < i =>
              /\ CompleteAt(FileOf(k), DeclaredPixels[k])
              /\ deleted[FileOf(k)] = 0
        /\ \A k \in 1..NumSizes : k > i =>
              /\ fs[FileOf(k)] = fs0[FileOf(k)]
              /\ written[FileOf(k)] = 0
        /\ \A f \in Touched : fs[f].state # "complete" =>
              (i \in 1..NumSizes /\ f = FileOf(i))

C10_Witness ==
    /\ Interrupted
    /\ pc = "exited"
    /\ i = 4
    /\ fs[FileOf(4)].state = "partial"
    /\ written[FileOf(4)] = 1
    /\ CompleteAt(FileOf(3), 58)

====
